---- MODULE Spec2Model ----
(***************************************************************************)
(* Model of textsearch/python/textsearch/utils.py, function is_overlap:    *)
(* a sorted list of ranges with a parallel list of segment indexes, and    *)
(* the ratio based insert / reject / evict decision made for each query.   *)
(*                                                                         *)
(* Ranges are pairs <<start, end>> of integers.  overlap_ratio is a        *)
(* fraction <<num, den>>; the ratios used (1/4, 1/2, 1) and the integer    *)
(* coordinates are exactly representable in binary floating point, so the  *)
(* float comparison  a - b > (c - d) * overlap_ratio  of the source is     *)
(* the exact comparison  (a - b) * den > (c - d) * num  made here.         *)
(* Python list positions are 0-based; TLA+ sequences are 1-based, so       *)
(* ranges[i] of the source is ranges[i + 1] here.                          *)
(***************************************************************************)
EXTENDS Integers, Sequences, FiniteSets, TLC

VARIABLES
    ranges,         \* the caller's list `ranges` (mutated in place)
    indexes,        \* the caller's list `indexes` (mutated in place)
    ranges0,        \* `ranges` as it was on entry to the latest call
    indexes0,       \* `indexes` as it was on entry to the latest call
    query,          \* argument `query` of the latest call
    segment_index,  \* argument `segment_index` of the latest call
    overlap_ratio,  \* argument `overlap_ratio` of the latest call
    ret,            \* value returned by the latest call: <<bool, dindex>>
    called,         \* TRUE while the caller holds the result of a call
    repeated,       \* the latest call repeated the arguments of the call
                    \* before it, and that call had placed its query
    ncalls,         \* calls made by a caller that numbers its segments
    admitted,       \* identifiers such a caller's calls placed in the set
    evicted         \* identifiers returned to such a caller as dindex

\* what a caller that passes 0, 1, 2, ... as segment_index has seen
hist == <<ncalls, admitted, evicted>>

vars == <<ranges, indexes, ranges0, indexes0, query, segment_index,
          overlap_ratio, ret, called, repeated, ncalls, admitted, evicted>>

----------------------------------------------------------------------------
(* Bounds of the exploration *)

MaxCoord == 2
MaxLen == 3
MaxId == 1
MaxCalls == 4

Coords == 0..MaxCoord
Ids == 0..MaxId

\* queries with start <= end
ValidQueries == {q \in Coords \X Coords : q[1] <= q[2]}

\* overlap_ratio values in (0, 1]; 1/4 is the default of the source
DefaultRatio == <<1, 4>>
Ratios == {DefaultRatio, <<1, 2>>, <<1, 1>>}

----------------------------------------------------------------------------
(* Python values and list operations *)

None == << >>
Some(x) == <<x>>

\* tuple comparison a < b
TupleLess(a, b) == a[1] < b[1] \/ (a[1] = b[1] /\ a[2] < b[2])

\* list.insert(i, x) for i >= 0; a position past the end appends
ListInsert(list, i, x) ==
    LET k == IF i > Len(list) THEN Len(list) ELSE i
    IN  SubSeq(list, 1, k) \o <<x>> \o SubSeq(list, k + 1, Len(list))

\* list.pop(i) for 0 <= i < len(list): the list without position i
ListPop(list, i) ==
    SubSeq(list, 1, i) \o SubSeq(list, i + 2, Len(list))

\* bisect.bisect_left(a, x): binary search between lo and hi
RECURSIVE BisectLoop(_, _, _, _)
BisectLoop(a, x, lo, hi) ==
    IF lo < hi
    THEN LET mid == (lo + hi) \div 2
         IN  IF TupleLess(a[mid + 1], x)
             THEN BisectLoop(a, x, mid + 1, hi)
             ELSE BisectLoop(a, x, lo, mid)
    ELSE lo

\* mutant: no search, the query is appended
bisect_left_append(a, x) == Len(a)

bisect_left(a, x) == BisectLoop(a, x, 0, Len(a))

\* mutant: the ratio scales the wrong side of the comparison
Exceeds_ratio_on_amount(amount, length, r) == amount * r[1] > length * r[2]

\* mutant: the comparison is not strict
Exceeds_or_equal(amount, length, r) == amount * r[2] >= length * r[1]

\* amount > length * overlap_ratio
Exceeds(amount, length, r) == amount * r[2] > length * r[1]

----------------------------------------------------------------------------
(* The tests of is_overlap.  rs is `ranges` on entry, index the insertion  *)
(* point, q the query, r the overlap ratio.                                *)

\* mutant: the neighbour's length is the base instead of the query's
OverlapOnQueryLeft_neighbour_base(rs, index, q, r) ==
    /\ index > 0
    /\ Exceeds(rs[index][2] - q[1], rs[index][2] - rs[index][1], r)

\* "overlapping on query", left neighbour
OverlapOnQueryLeft(rs, index, q, r) ==
    /\ index > 0
    /\ Exceeds(rs[index][2] - q[1], q[2] - q[1], r)

\* mutant: the operands of the subtraction are swapped
OverlapOnQueryRight_swapped(rs, index, q, r) ==
    /\ index < Len(rs)
    /\ Exceeds(rs[index + 1][1] - q[2], q[2] - q[1], r)

\* "overlapping on query", right neighbour
OverlapOnQueryRight(rs, index, q, r) ==
    /\ index < Len(rs)
    /\ Exceeds(q[2] - rs[index + 1][1], q[2] - q[1], r)

\* is_overlap_left: "overlapping on existing ranges", left neighbour
IsOverlapLeft(rs, index, q, r) ==
    /\ index > 0
    /\ Exceeds(rs[index][2] - q[1], rs[index][2] - rs[index][1], r)

\* mutant: the query's length is the base instead of the neighbour's
IsOverlapRight_query_base(rs, index, q, r) ==
    /\ index < Len(rs)
    /\ Exceeds(q[2] - rs[index + 1][1], q[2] - q[1], r)

\* is_overlap_right: "overlapping on existing ranges", right neighbour
IsOverlapRight(rs, index, q, r) ==
    /\ index < Len(rs)
    /\ Exceeds(q[2] - rs[index + 1][1],
               rs[index + 1][2] - rs[index + 1][1], r)

----------------------------------------------------------------------------
(* The mutations of is_overlap, one definition per list and branch.        *)

\* mutant: the neighbour is removed first, the insert position not adjusted
RangesEvictLeft_pop_first(rs, index, q) ==
    ListInsert(ListPop(rs, index - 1), index, q)

\* mutant: the neighbour is removed and the query never inserted
RangesEvictLeft_no_insert(rs, index, q) ==
    ListPop(rs, index - 1)

\* ranges.insert(index, query); ranges.pop(index - 1)
RangesEvictLeft(rs, index, q) ==
    ListPop(ListInsert(rs, index, q), index - 1)

\* mutant: the pop removes position index, the identifier just inserted
IndexesEvictLeft_pop_index(ix, index, id) ==
    ListPop(ListInsert(ix, index, id), index)

\* indexes.insert(index, segment_index); dindex = indexes.pop(index - 1)
IndexesEvictLeft(ix, index, id) ==
    ListPop(ListInsert(ix, index, id), index - 1)

\* mutant: the pop removes position index, the query just inserted
RangesEvictRight_pop_index(rs, index, q) ==
    ListPop(ListInsert(rs, index, q), index)

\* ranges.insert(index, query); ranges.pop(index + 1)
RangesEvictRight(rs, index, q) ==
    ListPop(ListInsert(rs, index, q), index + 1)

\* mutant: the identifier of the evicted neighbour is never removed
IndexesEvictRight_no_pop(ix, index, id) ==
    ListInsert(ix, index, id)

\* mutant: the pop removes position index, the identifier just inserted
IndexesEvictRight_pop_index(ix, index, id) ==
    ListPop(ListInsert(ix, index, id), index)

\* indexes.insert(index, segment_index); dindex = indexes.pop(index + 1)
IndexesEvictRight(ix, index, id) ==
    ListPop(ListInsert(ix, index, id), index + 1)

\* ranges.insert(index, query)
RangesInsert(rs, index, q) == ListInsert(rs, index, q)

\* mutant: the identifier is appended instead of inserted at index
IndexesInsert_append(ix, index, id) == ix \o <<id>>

\* indexes.insert(index, segment_index)
IndexesInsert(ix, index, id) == ListInsert(ix, index, id)

----------------------------------------------------------------------------
(* is_overlap(ranges, indexes, query, segment_index, overlap_ratio):       *)
(* the lists after the call and the value returned.                        *)

IsOverlapResult(rs, ix, q, id, r) ==
    LET index == bisect_left(rs, q)
        admit == [ranges  |-> RangesInsert(rs, index, q),
                  indexes |-> IndexesInsert(ix, index, id),
                  ret     |-> <<FALSE, None>>]
        reject == [ranges |-> rs, indexes |-> ix, ret |-> <<TRUE, None>>]
    IN  IF Len(rs) = 0 THEN admit
        ELSE IF OverlapOnQueryLeft(rs, index, q, r) THEN reject
        ELSE IF OverlapOnQueryRight(rs, index, q, r) THEN reject
        ELSE LET is_overlap_left  == IsOverlapLeft(rs, index, q, r)
                 is_overlap_right == IsOverlapRight(rs, index, q, r)
             IN  IF is_overlap_left \/ is_overlap_right
                 THEN IF is_overlap_left /\ ~is_overlap_right
                      THEN [ranges  |-> RangesEvictLeft(rs, index, q),
                            indexes |-> IndexesEvictLeft(ix, index, id),
                            \* position index - 1 after the insert at index
                            ret     |-> <<TRUE,
                                 Some(ListInsert(ix, index, id)[index])>>]
                      ELSE IF is_overlap_right /\ ~is_overlap_left
                      THEN [ranges  |-> RangesEvictRight(rs, index, q),
                            indexes |-> IndexesEvictRight(ix, index, id),
                            \* position index + 1 after the insert at index
                            ret     |-> <<TRUE,
                                 Some(ListInsert(ix, index, id)[index + 2])>>]
                      ELSE reject
                 ELSE admit

\* the latest call placed its query in the set
Placed == called /\ (ret[1] = FALSE \/ ret[2] # None)

\* one call of is_overlap by the caller
is_overlap(q, id, r) ==
    /\ Len(ranges) < MaxLen
    /\ LET res == IsOverlapResult(ranges, indexes, q, id, r)
       IN  /\ ranges' = res.ranges
           /\ indexes' = res.indexes
           /\ ret' = res.ret
    /\ ranges0' = ranges
    /\ indexes0' = indexes
    /\ query' = q
    /\ segment_index' = id
    /\ overlap_ratio' = r
    /\ called' = TRUE
    /\ repeated' = (Placed /\ q = query /\ id = segment_index
                           /\ r = overlap_ratio)

Init ==
    /\ ranges = << >>
    /\ indexes = << >>
    /\ ranges0 = << >>
    /\ indexes0 = << >>
    /\ query = <<0, 0>>
    /\ segment_index = 0
    /\ overlap_ratio \in Ratios
    /\ ret = <<FALSE, None>>
    /\ called = FALSE
    /\ repeated = FALSE
    /\ ncalls = 0
    /\ admitted = {}
    /\ evicted = << >>

\* the caller makes a new call with any valid query, identifier and ratio
Call(q, id, r) ==
    /\ ~called
    /\ is_overlap(q, id, r)
    /\ UNCHANGED hist

\* the caller makes the call it has just made once more, same arguments
CallAgain ==
    /\ called
    /\ is_overlap(query, segment_index, overlap_ratio)
    /\ UNCHANGED hist

\* the caller is done with the result of the latest call; the lists stay
Continue ==
    /\ called
    /\ called' = FALSE
    /\ ranges0' = << >>
    /\ indexes0' = << >>
    /\ query' = <<0, 0>>
    /\ segment_index' = 0
    /\ ret' = <<FALSE, None>>
    /\ repeated' = FALSE
    /\ UNCHANGED <<ranges, indexes, overlap_ratio>>
    /\ UNCHANGED hist

Next ==
    \/ \E q \in ValidQueries, id \in Ids, r \in Ratios : Call(q, id, r)
    \/ CallAgain
    \/ Continue

Spec == Init /\ [][Next]_vars

\* the caller passes the same overlap_ratio in every call
NextFixed ==
    \/ \E q \in ValidQueries, id \in Ids : Call(q, id, overlap_ratio)
    \/ CallAgain
    \/ Continue

SpecFixed == Init /\ [][NextFixed]_vars

\* the caller passes any pair of coordinates as query, also start > end
AllQueries == Coords \X Coords

NextAnyQuery ==
    \/ \E q \in AllQueries, id \in Ids, r \in Ratios : Call(q, id, r)
    \/ CallAgain
    \/ Continue

SpecAnyQuery == Init /\ [][NextAnyQuery]_vars

\* the caller passes any ratio, also 0, -1/2 and 2, outside (0, 1]
OutsideRatios == {<<0, 1>>, <<-1, 2>>, <<2, 1>>}

NextAnyRatio ==
    \/ \E q \in ValidQueries, id \in Ids, r \in Ratios \cup OutsideRatios :
           Call(q, id, r)
    \/ CallAgain
    \/ Continue

SpecAnyRatio == Init /\ [][NextAnyRatio]_vars

\* the caller passes the number of the call as segment_index, so the
\* identifiers of all its calls are pairwise distinct
CallNumbered(q, r) ==
    /\ ~called
    /\ ncalls < MaxCalls
    /\ is_overlap(q, ncalls, r)
    /\ ncalls' = ncalls + 1
    /\ admitted' = IF ret'[1] = FALSE \/ ret'[2] # None
                   THEN admitted \cup {ncalls}
                   ELSE admitted
    /\ evicted' = IF ret'[2] # None
                  THEN Append(evicted, ret'[2][1])
                  ELSE evicted

NextDistinct ==
    \/ \E q \in ValidQueries, r \in Ratios : CallNumbered(q, r)
    \/ Continue

SpecDistinct == Init /\ [][NextDistinct]_vars

\* the values is_overlap returns: (bool, None) or (bool, dindex)
NormalResults == BOOLEAN \X ({None} \cup {Some(i) : i \in Ids})

----------------------------------------------------------------------------
(* The latest call as the specification describes it, written from the     *)
(* entry state ranges0 / indexes0 and the arguments of the call.           *)

\* leftmost position (0-based) where q sorts in the sorted list rs
InsertionPoint(rs, q) ==
    Cardinality({i \in 1..Len(rs) : TupleLess(rs[i], q)})

Idx == InsertionPoint(ranges0, query)
HasLeft == Idx > 0
HasRight == Idx < Len(ranges0)
LeftNb == ranges0[Idx]
RightNb == ranges0[Idx + 1]
QueryLen == query[2] - query[1]

\* amount > overlap_ratio * base, for the ratio of the latest call
OverRatio(amount, base) ==
    amount * overlap_ratio[2] > base * overlap_ratio[1]

\* the four overlap tests
QueryRelLeft == HasLeft /\ OverRatio(LeftNb[2] - query[1], QueryLen)
QueryRelRight == HasRight /\ OverRatio(query[2] - RightNb[1], QueryLen)
NbRelLeft == HasLeft /\ OverRatio(LeftNb[2] - query[1], LeftNb[2] - LeftNb[1])
NbRelRight ==
    HasRight /\ OverRatio(query[2] - RightNb[1], RightNb[2] - RightNb[1])

PassesQueryRel == called /\ Len(ranges0) > 0 /\ ~QueryRelLeft /\ ~QueryRelRight
Unchanged == ranges = ranges0 /\ indexes = indexes0
Evicted == called /\ ret[1] = TRUE /\ ret[2] # None

\* closed ranges without a common point
Disjoint(a, b) == a[2] < b[1] \/ b[2] < a[1]

----------------------------------------------------------------------------
\* C1: after every call the range sequence is sorted ascending by
\* (start, end), whatever the call did (insert, evict left or right, reject).
Thm_C1_Sorted ==
    \A i \in 1..(Len(ranges) - 1) : ~TupleLess(ranges[i + 1], ranges[i])

\* an eviction has just put the query between two other ranges' places
Wit_C1_SortedAfterEviction ==
    /\ Evicted
    /\ Len(ranges) >= 2
    /\ ranges # ranges0

\* C2: with the same overlap_ratio in every call, no two consecutive ranges
\* a, b overlap by more than overlap_ratio of a's length or of b's length.
CE_C2_ConsecutiveWithinRatio ==
    \A i \in 1..(Len(ranges) - 1) :
        LET a == ranges[i]
            b == ranges[i + 1]
        IN  /\ ~OverRatio(a[2] - b[1], a[2] - a[1])
            /\ ~OverRatio(a[2] - b[1], b[2] - b[1])

\* C3: the range sequence and the identifier sequence have the same length
\* after every call.
Thm_C3_LengthCoupling == Len(ranges) = Len(indexes)

\* a right eviction, which inserts into and pops from both lists
Wit_C3_AfterRightEviction ==
    /\ Evicted
    /\ PassesQueryRel /\ NbRelRight /\ ~NbRelLeft
    /\ Len(indexes) = Len(indexes0)

\* C4: a call grows the set by the query, leaves it as it was, or replaces
\* exactly one existing element by the query; the length changes by 0 or +1.
Thm_C4_GrowKeepOrReplace ==
    called =>
        /\ Len(ranges) - Len(ranges0) \in {0, 1}
        /\ \/ ranges = ranges0
           \/ \E i \in 0..Len(ranges0) : ranges = ListInsert(ranges0, i, query)
           \/ \E i \in 1..Len(ranges0) : ranges = [ranges0 EXCEPT ![i] = query]

\* a left eviction that replaced a different range
Wit_C4_Replaced ==
    /\ Evicted
    /\ PassesQueryRel /\ NbRelLeft /\ ~NbRelRight
    /\ Len(ranges) = Len(ranges0)
    /\ ranges # ranges0

\* C5: on a non-empty set, when a neighbour overlaps the query by more than
\* overlap_ratio of the query's length the call returns (True, None) and
\* changes nothing, whatever the overlap relative to the neighbour's length.
Thm_C5_QueryRelRejects ==
    (called /\ Len(ranges0) > 0 /\ (QueryRelLeft \/ QueryRelRight)) =>
        (ret = <<TRUE, None>> /\ Unchanged)

\* rejected although exactly one neighbour is overlapped beyond its own ratio
Wit_C5_RejectedDespiteNbOverlap ==
    /\ called /\ Len(ranges0) > 0
    /\ QueryRelLeft \/ QueryRelRight
    /\ NbRelLeft # NbRelRight
    /\ ret = <<TRUE, None>>

\* C6: query-relative tests pass, only the left neighbour is overlapped
\* beyond its own ratio: the call returns (True, left identifier) and the
\* query and its identifier take exactly the left neighbour's position.
Thm_C6_EvictLeft ==
    (PassesQueryRel /\ NbRelLeft /\ ~NbRelRight) =>
        /\ ret = <<TRUE, Some(indexes0[Idx])>>
        /\ ranges = [ranges0 EXCEPT ![Idx] = query]
        /\ indexes = [indexes0 EXCEPT ![Idx] = segment_index]

\* a left eviction with a right neighbour present and a new identifier
Wit_C6_EvictLeft ==
    /\ PassesQueryRel /\ NbRelLeft /\ ~NbRelRight
    /\ HasRight
    /\ RightNb # query
    /\ indexes0[Idx] # segment_index
    /\ ret[2] = Some(indexes0[Idx])

\* C7: query-relative tests pass, only the right neighbour is overlapped
\* beyond its own ratio: the call returns (True, right identifier) and the
\* query and its identifier take exactly the right neighbour's position.
Thm_C7_EvictRight ==
    (PassesQueryRel /\ NbRelRight /\ ~NbRelLeft) =>
        /\ ret = <<TRUE, Some(indexes0[Idx + 1])>>
        /\ ranges = [ranges0 EXCEPT ![Idx + 1] = query]
        /\ indexes = [indexes0 EXCEPT ![Idx + 1] = segment_index]

\* a right eviction with a left neighbour present and a new identifier
Wit_C7_EvictRight ==
    /\ PassesQueryRel /\ NbRelRight /\ ~NbRelLeft
    /\ HasLeft
    /\ RightNb # query
    /\ indexes0[Idx + 1] # segment_index
    /\ ret[2] = Some(indexes0[Idx + 1])

\* C8: query-relative tests pass and both neighbours are overlapped beyond
\* their own ratio: the call returns (True, None) and changes nothing.
Thm_C8_BothSidesReject ==
    (PassesQueryRel /\ NbRelLeft /\ NbRelRight) =>
        (ret = <<TRUE, None>> /\ Unchanged)

\* both neighbours overlapped beyond their own ratio, the query rejected
Wit_C8_BothSides ==
    /\ PassesQueryRel /\ NbRelLeft /\ NbRelRight
    /\ ret = <<TRUE, None>>

\* C9: on an empty set, or when none of the four tests fires, the call
\* returns (False, None) and the query and its identifier are inserted at
\* the leftmost sorted insertion point, everything else keeping its order;
\* a query disjoint from every existing range is admitted this way.
Thm_C9_CleanInsert ==
    (called /\ (\/ Len(ranges0) = 0
                \/ PassesQueryRel /\ ~NbRelLeft /\ ~NbRelRight
                \/ \A i \in 1..Len(ranges0) : Disjoint(ranges0[i], query))) =>
        /\ ret = <<FALSE, None>>
        /\ ranges = ListInsert(ranges0, Idx, query)
        /\ indexes = ListInsert(indexes0, Idx, segment_index)
        /\ Len(ranges) = Len(ranges0) + 1

\* a clean insertion between two existing ranges, one of them touched
Wit_C9_InsertBetween ==
    /\ PassesQueryRel /\ ~NbRelLeft /\ ~NbRelRight
    /\ HasLeft /\ HasRight
    /\ LeftNb[2] - query[1] > 0
    /\ indexes0[Idx] # segment_index
    /\ ret = <<FALSE, None>>

\* C10 as stated: a call repeating the arguments of a call that placed its
\* query returns True first, with the identifier or None second, and adds
\* no second copy of the query.
CE_C10_RepeatRejected ==
    repeated =>
        /\ ret[1] = TRUE
        /\ ret[2] \in {None, Some(segment_index)}
        /\ ranges = ranges0

\* C10 amended: the same, for a query with start < end and overlap_ratio < 1.
Thm_C10_RepeatRejected ==
    (repeated /\ query[1] < query[2] /\ overlap_ratio[1] < overlap_ratio[2]) =>
        /\ ret[1] = TRUE
        /\ ret[2] \in {None, Some(segment_index)}
        /\ ranges = ranges0

\* a repeated call of a query of positive length with ratio < 1 on a set
\* of at least two ranges that holds the query and its identifier
Wit_C10_RepeatAfterPlacement ==
    /\ repeated
    /\ query[1] < query[2] /\ overlap_ratio[1] < overlap_ratio[2]
    /\ Len(ranges0) >= 2
    /\ \E i \in 1..Len(ranges0) :
           ranges0[i] = query /\ indexes0[i] = segment_index
    /\ ret[1] = TRUE

\* amount <= overlap_ratio * base, and amount = overlap_ratio * base
AtOrBelow(amount, base) == amount * overlap_ratio[2] <= base * overlap_ratio[1]
Exactly(amount, base) == amount * overlap_ratio[2] = base * overlap_ratio[1]

LeftAmount == LeftNb[2] - query[1]
RightAmount == query[2] - RightNb[1]
LeftNbLen == LeftNb[2] - LeftNb[1]
RightNbLen == RightNb[2] - RightNb[1]

\* some test of the latest call compares an amount equal to its threshold
OnBoundary ==
    \/ HasLeft /\ (Exactly(LeftAmount, QueryLen) \/ Exactly(LeftAmount, LeftNbLen))
    \/ HasRight /\ (Exactly(RightAmount, QueryLen)
                      \/ Exactly(RightAmount, RightNbLen))

\* C11: the four tests are strict: a query whose overlaps are all at or below
\* their thresholds, at least one exactly on its threshold, is inserted at
\* the insertion point and (False, None) is returned.
Thm_C11_BoundaryNotOverlap ==
    (/\ called /\ Len(ranges0) > 0
     /\ OnBoundary
     /\ HasLeft => (AtOrBelow(LeftAmount, QueryLen)
                      /\ AtOrBelow(LeftAmount, LeftNbLen))
     /\ HasRight => (AtOrBelow(RightAmount, QueryLen)
                       /\ AtOrBelow(RightAmount, RightNbLen))) =>
        /\ ret = <<FALSE, None>>
        /\ ranges = ListInsert(ranges0, Idx, query)
        /\ indexes = ListInsert(indexes0, Idx, segment_index)

\* a positive overlap exactly on the threshold of both the query-relative
\* and the neighbour-relative test, and the query inserted
Wit_C11_ExactlyOnThreshold ==
    /\ called /\ ret = <<FALSE, None>>
    /\ \/ /\ HasLeft /\ LeftAmount > 0
          /\ Exactly(LeftAmount, QueryLen) /\ Exactly(LeftAmount, LeftNbLen)
       \/ /\ HasRight /\ RightAmount > 0
          /\ Exactly(RightAmount, QueryLen) /\ Exactly(RightAmount, RightNbLen)
    /\ Len(ranges) = Len(ranges0) + 1

\* C12: a call whose query has start > end reports an InvalidRange error
\* instead of a normal (bool, identifier) result and leaves both lists as
\* they were.
CE_C12_InvalidRangeReported ==
    (called /\ query[1] > query[2]) =>
        (ret \notin NormalResults /\ Unchanged)

\* C13: a call whose overlap_ratio is outside (0, 1] reports an InvalidRatio
\* error instead of a normal result and mutates neither list.
CE_C13_InvalidRatioReported ==
    (called /\ ~(0 < overlap_ratio[1] /\ overlap_ratio[1] <= overlap_ratio[2])) =>
        (ret \notin NormalResults /\ Unchanged)

\* the (range, identifier) pairs held at equal positions of two lists
Pairs(rs, ix) == {<<rs[i], ix[i]>> : i \in 1..Len(rs)}

\* C14: index alignment: after a call every position holds a pair that was
\* at one position before the call or is the (query, identifier) pair of
\* this call, so by induction from the empty lists every pair was passed
\* together to one earlier call.
Thm_C14_PairsStayAligned ==
    called =>
        /\ Len(indexes) = Len(ranges)
        /\ Pairs(ranges, indexes) \subseteq
               Pairs(ranges0, indexes0) \cup {<<query, segment_index>>}

\* an eviction among two ranges with different identifiers, the query
\* bringing the identifier of the range that stays
Wit_C14_EvictionKeepsPairs ==
    /\ Evicted
    /\ Len(ranges0) = 2
    /\ indexes0[1] # indexes0[2]
    /\ ranges0[1] # ranges0[2]
    /\ ret[2] # Some(segment_index)
    /\ <<query, segment_index>> \in Pairs(ranges, indexes)

\* position i of the lists is where the latest call put the query in place
\* of the range whose identifier it returned
ReplacedAt(i) ==
    /\ ret[2] = Some(indexes0[i])
    /\ ranges = [ranges0 EXCEPT ![i] = query]
    /\ indexes = [indexes0 EXCEPT ![i] = segment_index]

\* C16: an eviction replaces a strictly shorter range: when a call returns
\* (True, d) with d an identifier, the range it removed is strictly shorter
\* than the query.
Thm_C16_EvictedIsShorter ==
    Evicted =>
        /\ \E i \in 1..Len(ranges0) : ReplacedAt(i)
        /\ \A i \in 1..Len(ranges0) :
               ReplacedAt(i) => ranges0[i][2] - ranges0[i][1] < QueryLen

\* a right eviction of a range of positive length
Wit_C16_EvictedPositiveLength ==
    /\ Evicted
    /\ HasRight /\ ReplacedAt(Idx + 1)
    /\ RightNbLen > 0
    /\ RightNbLen < QueryLen

\* the identifier is in the identifier sequence
Present(id) == \E i \in 1..Len(indexes) : indexes[i] = id

\* number of calls that returned the identifier as evicted
TimesEvicted(id) == Cardinality({i \in 1..Len(evicted) : evicted[i] = id})

\* C15: with pairwise distinct identifiers, every identifier some call
\* placed is still in the identifier sequence or was returned as evicted by
\* exactly one call, never both; and an identifier returned as evicted was
\* in the sequence before that call and is absent after it.
Thm_C15_NoIdentifierLost ==
    /\ \A id \in admitted :
           \/ Present(id) /\ TimesEvicted(id) = 0
           \/ ~Present(id) /\ TimesEvicted(id) = 1
    /\ \A i \in 1..Len(evicted) : evicted[i] \in admitted
    /\ Evicted =>
           /\ \E i \in 1..Len(indexes0) : indexes0[i] = ret[2][1]
           /\ ~Present(ret[2][1])

\* the third call evicted one of two placed identifiers
Wit_C15_EvictedOnceOthersKept ==
    /\ Evicted
    /\ ncalls = 3
    /\ Len(indexes0) = 2
    /\ Len(evicted) = 1
    /\ Cardinality(admitted) = 3
    /\ Present(segment_index)

====
